---------------------------- MODULE Spec2Model ----------------------------
(***************************************************************************)
(* Harshi-App content tooling.                                             *)
(*                                                                         *)
(*   scripts/validate_structure.py  the structure validator: one walk over *)
(*       public/<Subject>/<topic>/{studyguide,questionnaire,Handout} that  *)
(*       accumulates the module-level report and prints it.                *)
(*   scripts/convert_to_csv.py      the workbook -> CSV conversion.        *)
(*                                                                         *)
(* The validator is modelled as a walk whose position is (pc, si, ti, ki); *)
(* the directory tree is the environment, and each filesystem query the    *)
(* walk makes is answered when it is made (every path is queried once).    *)
(* A step of the walk ends where the report may have changed before the    *)
(* next filesystem access, so a failure of that access (Crash) finds the   *)
(* report exactly as the code would have left it.                          *)
(***************************************************************************)
EXTENDS Integers, Sequences, FiniteSets, TLC

\* ------------------------------------------------------------------ bounds

\* Topic directories a fully explored subject folder may hold.
MaxTopics == 1
\* Entries the Pages directory of a studyguide may hold.
MaxPages == 3
\* Data rows a varied worksheet may hold.
MaxRows == 2
\* Runs of the conversion script in a row.
MaxRuns == 2

\* ------------------------------------------------------ validator: config

REQUIRED_SUBJECTS == <<"Physics", "Chemistry", "Biology", "Math", "English", "Social">>

REQUIRED_TOPIC_STRUCTURE == <<"studyguide", "questionnaire", "Handout">>

\* The suffixes validate_studyguide accepts (case-sensitive, as Path.suffix gives them).
PageSuffixes == {".csv", ".pdf", ".docx", ".doc", ".jpg", ".png"}

\* ------------------------------------------------- validator: environment

\* Subject folders whose content is explored in full variety.
RichSubjects == {"Physics"}

\* Subject folders that are absent or hold one well-formed topic in any
\* tree; the remaining ones are there only in a tree that is well-formed up to
\* them (MayExist).
PlainSubjects == {"Math", "Chemistry"}

\* Names of topic directories, in iterdir order.
TopicNames == <<"t1", "t2", "t3">>

\* A directory entry is its stem and its suffix: Path.name is the two joined,
\* Path.suffix the second.
File(stem, suffix) == [stem |-> stem, suffix |-> suffix]

IndexCsv == File("index", ".csv")

\* What a Pages directory may hold.
PageFiles == {IndexCsv, File("Page1", ".pdf"), File("Page2", ".csv"), File("notes", ".txt")}

\* What a Quiz directory may hold.
QuizFiles == {File("q", ".csv"), File("readme", ".txt")}

\* The listings glob("*") may return for a directory over `names`: at most n
\* entries, each name once, in any order.
Listings(names, n) ==
    {l \in UNION {[1..k -> names] : k \in 0..n} :
        \A i, j \in 1..Len(l) : i # j => l[i] # l[j]}

\* The Pages listing of the topic of a subject that is not in RichSubjects.
StandardPages == <<IndexCsv, File("Page1", ".pdf")>>

VARIABLES
    report,     \* validate_structure.py: the module-level report
    pc,         \* validator: where the run is
    si,         \* validator: index into REQUIRED_SUBJECTS
    ntopics,    \* validator: len(topics) of the current subject
    ti,         \* validator: index of the current topic
    ki,         \* validator: index into REQUIRED_TOPIC_STRUCTURE
    idxInPages, \* validator: (pages_dir / "index.csv").exists(), as answered
    files,      \* validator: the directory listing of the last step (files, csvs)
    quizDir,    \* validator: quiz_dir.exists(), as answered in the last step
    seen,       \* validator: what each subject folder walked so far turned out to be
    output      \* validator: what print(json.dumps(report)) wrote, <<>> before it

vvars == <<report, pc, si, ntopics, ti, ki, idxInPages, files, quizDir, seen, output>>

VARIABLES
    master,     \* converter input: public/data/StudyHub_Master.xlsx
    books,      \* converter input: public/data/subjects/*.xlsx, in glob order
    env,        \* converter environment: old files and paths that cannot be written
    disk,       \* the output tree: path -> the CSV file at it
    cpc,        \* converter: where main is
    run,        \* converter: which run of the script this is
    bi,         \* converter: index of the subject workbook of the current pass
    subjects,   \* converter: main's subjects
    mapping,    \* converter: main's mapping
    console,    \* converter: the lines printed in this run
    written,    \* converter: the files written in this run, in order, with their content
    snapshots   \* the output tree as each finished run left it

cvars == <<master, books, env, disk, cpc, run, bi, subjects, mapping, console, written, snapshots>>

vars == <<vvars, cvars>>

\* ------------------------------------------------------ validator: report

InitReport ==
    [status |-> "success",
     errors |-> <<>>,
     warnings |-> <<>>,
     stats |-> [files_checked |-> 0, valid_files |-> 0, invalid_files |-> 0]]

\* An entry f"[ERROR] {msg} ({path})": the message, what it interpolates, and
\* the path (<<>> for None).
Entry(level, msg, arg, path) == [level |-> level, msg |-> msg, arg |-> arg, path |-> path]

\* A mutant of log_error: the entry is appended and status is left alone.
log_error_keeps_status(r, msg, arg, path) ==
    [r EXCEPT !.errors = Append(@, Entry("ERROR", msg, arg, path))]

log_error(r, msg, arg, path) ==
    [r EXCEPT !.errors = Append(@, Entry("ERROR", msg, arg, path)),
              !.status = "failed"]

\* A mutant of log_warn: a warning sets status as an error does.
log_warn_fails(r, msg, arg, path) ==
    [r EXCEPT !.warnings = Append(@, Entry("WARN", msg, arg, path)),
              !.status = "failed"]

log_warn(r, msg, arg, path) ==
    [r EXCEPT !.warnings = Append(@, Entry("WARN", msg, arg, path))]

\* --------------------------------------------------- validator: the walk

Subject == REQUIRED_SUBJECTS[si]

TopicPath == <<Subject, TopicNames[ti]>>

SubPath == Append(TopicPath, REQUIRED_TOPIC_STRUCTURE[ki])

\* The position after the current subject: the next one, or the end of the
\* for loop of validate_structure.
NextSubject ==
    IF si < Len(REQUIRED_SUBJECTS)
    THEN /\ pc' = "subject"
         /\ si' = si + 1
         /\ ntopics' = 0 /\ ti' = 0 /\ ki' = 0
    ELSE /\ pc' = "emit"
         /\ UNCHANGED <<si, ntopics, ti, ki>>

\* The position after one subfolder of REQUIRED_TOPIC_STRUCTURE: the next
\* subfolder, the next topic, or the next subject.
NextSub ==
    IF ki < Len(REQUIRED_TOPIC_STRUCTURE)
    THEN pc' = "sub" /\ ki' = ki + 1 /\ UNCHANGED <<si, ntopics, ti>>
    ELSE IF ti < ntopics
         THEN pc' = "sub" /\ ti' = ti + 1 /\ ki' = 1 /\ UNCHANGED <<si, ntopics>>
         ELSE NextSubject

\* A mutant of AfterMissingSub: `break` where the code has `continue`.
AfterMissingSub_break ==
    IF ti < ntopics
    THEN pc' = "sub" /\ ti' = ti + 1 /\ ki' = 1 /\ UNCHANGED <<si, ntopics>>
    ELSE NextSubject

\* The `continue` of validate_topic after an absent subfolder.
AfterMissingSub == NextSub

\* The trees walked: any tree may lack any subject folder and hold the
\* subjects of RichSubjects and PlainSubjects; a tree holds another subject
\* folder only if all it held up to there was well-formed.
WellFormedSoFar ==
    /\ report.errors = <<>>
    /\ \A i \in 1..Len(report.warnings) : report.warnings[i].msg = "Missing subject folder"

MayExist == Subject \in RichSubjects \cup PlainSubjects \/ WellFormedSoFar

\* validate_structure, one iteration of its for loop up to the first topic:
\* the subject folder is absent, holds no directory, or holds `n`.
ValidateSubject ==
    /\ pc = "subject"
    /\ UNCHANGED <<idxInPages, files, quizDir, output, cvars>>
    /\ \E exists \in (IF MayExist THEN BOOLEAN ELSE {FALSE}) :
       \E n \in 0..(IF Subject \in RichSubjects THEN MaxTopics ELSE 1) :
          IF ~exists
          THEN /\ n = 0
               /\ report' = log_warn(report, "Missing subject folder", Subject, <<>>)
               /\ seen' = Append(seen, "absent")
               /\ NextSubject
          ELSE IF n = 0
          THEN /\ Subject \in RichSubjects
               /\ report' = log_warn(report, "No topics found for subject", Subject, <<Subject>>)
               /\ seen' = Append(seen, "empty")
               /\ NextSubject
          ELSE /\ report' = report
               /\ seen' = Append(seen, "topics")
               /\ pc' = "sub"
               /\ ntopics' = n /\ ti' = 1 /\ ki' = 1
               /\ si' = si

\* What the environment may answer for the current subject: anything for a
\* subject of RichSubjects, the well-formed answer otherwise.
Rich == Subject \in RichSubjects

Answers == IF Rich THEN BOOLEAN ELSE {TRUE}

\* A mutant of validate_studyguide_head: index.csv is looked for under
\* studyguide only, without the fallback to Pages.
validate_studyguide_head_root_only(r, path, pages, idxRoot, idxPages) ==
    IF ~pages
    THEN log_error(r, "Missing 'Pages' directory in studyguide", "", path)
    ELSE IF ~idxRoot
         THEN log_error(r, "Missing 'index.csv' map for studyguide pages", "", path)
         ELSE r

\* A mutant of validate_studyguide_head: no `return` after the Pages error.
validate_studyguide_head_no_return(r, path, pages, idxRoot, idxPages) ==
    LET r1 == IF ~pages
              THEN log_error(r, "Missing 'Pages' directory in studyguide", "", path)
              ELSE r
    IN  IF ~idxRoot /\ ~idxPages
        THEN log_error(r1, "Missing 'index.csv' map for studyguide pages", "", path)
        ELSE r1

\* validate_studyguide up to the glob: the Pages check and the index.csv
\* check. `idxPages` is read only when index.csv is not under studyguide.
validate_studyguide_head(r, path, pages, idxRoot, idxPages) ==
    IF ~pages
    THEN log_error(r, "Missing 'Pages' directory in studyguide", "", path)
    ELSE IF ~idxRoot /\ ~idxPages
         THEN log_error(r, "Missing 'index.csv' map for studyguide pages", "", path)
         ELSE r

\* A mutant of PagesLoop: no `continue` for index.csv, which then counts as
\* a page.
RECURSIVE PagesLoop_counts_index(_, _, _, _)
PagesLoop_counts_index(r, path, fs, valid_count) ==
    IF fs = <<>> THEN [r |-> r, valid_count |-> valid_count]
    ELSE LET f == Head(fs)
         IN  IF f.suffix \notin PageSuffixes
             THEN PagesLoop_counts_index(log_warn(r, "Stray or unknown file type", f,
                                                  path \o <<"Pages", f>>),
                                         path, Tail(fs), valid_count)
             ELSE PagesLoop_counts_index(r, path, Tail(fs), valid_count + 1)

\* The for loop over files: the report and valid_count after it.
RECURSIVE PagesLoop(_, _, _, _)
PagesLoop(r, path, fs, valid_count) ==
    IF fs = <<>> THEN [r |-> r, valid_count |-> valid_count]
    ELSE LET f == Head(fs)
         IN  IF f = IndexCsv
             THEN PagesLoop(r, path, Tail(fs), valid_count)
             ELSE IF f.suffix \notin PageSuffixes
             THEN PagesLoop(log_warn(r, "Stray or unknown file type", f,
                                     path \o <<"Pages", f>>),
                            path, Tail(fs), valid_count)
             ELSE PagesLoop(r, path, Tail(fs), valid_count + 1)

\* A mutant of validate_studyguide_files: the files that are not counted as
\* valid are counted as invalid.
validate_studyguide_files_counts_invalid(r, path, fs) ==
    LET counted == [r EXCEPT !.stats.files_checked = @ + Len(fs)]
        looped == PagesLoop(counted, path, fs, 0)
    IN  [looped.r EXCEPT !.stats.valid_files = @ + looped.valid_count,
                         !.stats.invalid_files = @ + (Len(fs) - looped.valid_count)]

\* A mutant of validate_studyguide_files: `=` where the code has `+=`.
validate_studyguide_files_assigns(r, path, fs) ==
    LET counted == [r EXCEPT !.stats.files_checked = Len(fs)]
        looped == PagesLoop(counted, path, fs, 0)
    IN  [looped.r EXCEPT !.stats.valid_files = looped.valid_count]

\* validate_studyguide from the glob on: files_checked, the loop, valid_files.
validate_studyguide_files(r, path, fs) ==
    LET counted == [r EXCEPT !.stats.files_checked = @ + Len(fs)]
        looped == PagesLoop(counted, path, fs, 0)
    IN  [looped.r EXCEPT !.stats.valid_files = @ + looped.valid_count]

\* quiz_dir.glob("*.csv")
GlobCsv(fs) == SelectSeq(fs, LAMBDA f : f.suffix = ".csv")

\* A mutant of validate_questionnaire: a Quiz directory without CSV files is
\* logged as an error.
validate_questionnaire_empty_is_error(r, path, quiz, fs) ==
    IF ~quiz
    THEN log_error(r, "Missing 'Quiz' directory", "", path)
    ELSE IF GlobCsv(fs) = <<>>
         THEN log_error(r, "No quiz CSV files found", "", Append(path, "Quiz"))
         ELSE r

validate_questionnaire(r, path, quiz, fs) ==
    IF ~quiz
    THEN log_error(r, "Missing 'Quiz' directory", "", path)
    ELSE IF GlobCsv(fs) = <<>>
         THEN log_warn(r, "No quiz CSV files found", "", Append(path, "Quiz"))
         ELSE r

validate_handout(r, path, pages) == r

\* The error validate_topic logs for an absent subfolder.
MissingSub(r, sub, topic_path) ==
    log_error(r, "Missing required subfolder in topic", sub, topic_path)

\* validate_topic, one iteration of its for loop: the subfolder is absent, or
\* its validator runs (validate_studyguide as far as the glob).
ValidateTopicSub ==
    /\ pc = "sub"
    /\ UNCHANGED <<seen, output, cvars>>
    /\ REQUIRED_TOPIC_STRUCTURE[ki] # "questionnaire" => files' = <<>> /\ quizDir' = "unread"
    /\ LET sub == REQUIRED_TOPIC_STRUCTURE[ki]
       IN \E exists \in Answers :
          IF ~exists
          THEN /\ report' = MissingSub(report, sub, TopicPath)
               /\ idxInPages' = "any"
               /\ sub = "questionnaire" => files' = <<>> /\ quizDir' = "unread"
               /\ AfterMissingSub
          ELSE IF sub = "studyguide"
          THEN \E pages \in Answers, idxRoot \in (IF Rich THEN BOOLEAN ELSE {FALSE}),
                  idxPages \in Answers :
                  /\ report' = validate_studyguide_head(report, SubPath, pages, idxRoot, idxPages)
                  /\ IF pages
                     THEN /\ pc' = "sg_files"
                          /\ idxInPages' = IF idxRoot THEN "any"
                                           ELSE IF idxPages THEN "yes" ELSE "no"
                          /\ UNCHANGED <<si, ntopics, ti, ki>>
                     ELSE /\ idxInPages' = "any"
                          /\ NextSub
          ELSE IF sub = "questionnaire"
          THEN \E quiz \in Answers :
               \E fs \in (IF ~quiz THEN {<<>>}
                          ELSE IF Rich THEN Listings(QuizFiles, Cardinality(QuizFiles))
                          ELSE {<<File("q", ".csv")>>}) :
                  /\ report' = validate_questionnaire(report, SubPath, quiz, fs)
                  /\ quizDir' = IF quiz THEN "present" ELSE "absent"
                  /\ files' = fs
                  /\ idxInPages' = "any"
                  /\ NextSub
          ELSE /\ report' = validate_handout(report, SubPath, TRUE)
               /\ idxInPages' = "any"
               /\ NextSub

\* validate_studyguide, from files = list(pages_dir.glob("*")) to its end.
ValidateStudyguideFiles ==
    /\ pc = "sg_files"
    /\ UNCHANGED <<seen, output, cvars>>
    /\ \E fs \in (IF Rich THEN Listings(PageFiles, MaxPages) ELSE {StandardPages}) :
          /\ idxInPages = "yes" => \E i \in 1..Len(fs) : fs[i] = IndexCsv
          /\ idxInPages = "no" => \A i \in 1..Len(fs) : fs[i] # IndexCsv
          /\ report' = validate_studyguide_files(report, SubPath, fs)
          /\ files' = fs
    /\ idxInPages' = "any"
    /\ quizDir' = "unread"
    /\ NextSub

\* A mutant of Crash: the exception is not caught and the process ends.
Crash_uncaught ==
    /\ pc \in {"subject", "sub", "sg_files"}
    /\ pc' = "done"
    /\ si' = 0 /\ ntopics' = 0 /\ ti' = 0 /\ ki' = 0
    /\ idxInPages' = "any" /\ files' = <<>> /\ quizDir' = "unread"
    /\ UNCHANGED <<report, seen, output, cvars>>

\* Any filesystem access of the walk raises: the except clause of __main__
\* logs it and the run goes on to print the report.
Crash ==
    /\ pc \in {"subject", "sub", "sg_files"}
    /\ report' = log_error(report, "Validation script crashed", "e", <<>>)
    /\ pc' = "emit"
    /\ si' = 0 /\ ntopics' = 0 /\ ti' = 0 /\ ki' = 0
    /\ idxInPages' = "any" /\ files' = <<>> /\ quizDir' = "unread"
    /\ UNCHANGED <<seen, output, cvars>>

\* print(json.dumps(report, indent=2))
Emit ==
    /\ pc = "emit"
    /\ output' = <<report>>
    /\ pc' = "done"
    /\ files' = <<>> /\ quizDir' = "unread"
    /\ UNCHANGED <<report, si, ntopics, ti, ki, idxInPages, seen, cvars>>

\* The validator before its walk.
ValidatorStart ==
    /\ report = InitReport
    /\ pc = "subject"
    /\ si = 1 /\ ntopics = 0 /\ ti = 0 /\ ki = 0
    /\ idxInPages = "any"
    /\ files = <<>>
    /\ quizDir = "unread"
    /\ seen = <<>>
    /\ output = <<>>

\* The converter not in use: no input, an empty output tree.
ConverterIdle ==
    /\ master = <<>> /\ books = <<>>
    /\ env = <<>>
    /\ disk = <<>>
    /\ cpc = "idle" /\ run = 0 /\ bi = 0
    /\ subjects = <<>> /\ mapping = <<>>
    /\ console = <<>> /\ written = <<>> /\ snapshots = <<>>

InitValidate == ValidatorStart /\ ConverterIdle

NextValidate ==
    \/ ValidateSubject
    \/ ValidateTopicSub
    \/ ValidateStudyguideFiles
    \/ Crash
    \/ Emit

SpecValidate == InitValidate /\ [][NextValidate]_vars

\* ------------------------------------------------- converter: strings

(***************************************************************************)
(* A string is the sequence of its characters; a field name or a word the  *)
(* code never takes apart ("topic_id", "Physics") is one character of it.  *)
(* str.strip, str.replace and str.title are computed on that sequence.     *)
(***************************************************************************)
Str(a) == <<a>>

Empty == <<>>

\* A worksheet cell as openpyxl returns it: None, or a value with its str().
NoneCell == [none |-> TRUE, s |-> Empty]

Cell(s) == [none |-> FALSE, s |-> s]

RECURSIVE LStrip(_)
LStrip(s) == IF s # <<>> /\ Head(s) = " " THEN LStrip(Tail(s)) ELSE s

RECURSIVE RStrip(_)
RStrip(s) == IF s # <<>> /\ s[Len(s)] = " " THEN RStrip(SubSeq(s, 1, Len(s) - 1)) ELSE s

\* str.strip()
Strip(s) == RStrip(LStrip(s))

\* str(None), and the same text typed into a cell.
NoneText == <<"N", "o", "n", "e">>

clean_cell_value(cell) ==
    IF cell.none THEN Empty
    ELSE LET value == Strip(cell.s)
         IN  IF value # NoneText THEN value ELSE Empty

\* str.replace(old, new) for a one-character old; new is a string.
RECURSIVE Replace(_, _, _)
Replace(s, old, new) ==
    IF s = <<>> THEN <<>>
    ELSE (IF Head(s) = old THEN new ELSE <<Head(s)>>) \o Replace(Tail(s), old, new)

\* The cased letters of the strings the model builds, lower case then upper.
CasePairs == {<<"a", "A">>, <<"b", "B">>, <<"c", "C">>, <<"e", "E">>, <<"h", "H">>,
              <<"p", "P">>, <<"t", "T">>, <<"y", "Y">>}

IsCased(c) == \E q \in CasePairs : c = q[1] \/ c = q[2]

Upper(c) == IF \E q \in CasePairs : q[1] = c
            THEN (CHOOSE q \in CasePairs : q[1] = c)[2] ELSE c

Lower(c) == IF \E q \in CasePairs : q[2] = c
            THEN (CHOOSE q \in CasePairs : q[2] = c)[1] ELSE c

\* str.title(): a cased letter is upper case after an uncased character (or
\* at the start) and lower case after a cased one.
Title(s) ==
    [i \in 1..Len(s) |->
        IF i = 1 \/ ~IsCased(s[i - 1]) THEN Upper(s[i]) ELSE Lower(s[i])]

\* topic_name.replace(' ', '_').replace("'", "")
TopicFolder(topic_name) == Replace(Replace(topic_name, " ", <<"_">>), "'", <<>>)

\* ------------------------------------------------ converter: dictionaries

\* A row dictionary is a function from its keys; dict.get(key, default):
Get(d, key, default) == IF key \in DOMAIN d THEN d[key] ELSE default

\* A dictionary the code iterates (mapping, by_topic) is the sequence of its
\* items in insertion order.
Item(k, v) == [key |-> k, val |-> v]

Keys(d) == {d[i].key : i \in 1..Len(d)}

Lookup(d, k) == (CHOOSE i \in 1..Len(d) : d[i].key = k)

\* d[k] = v: a new key goes last, a known key keeps its place.
Put(d, k, v) ==
    IF k \in Keys(d)
    THEN [d EXCEPT ![Lookup(d, k)] = Item(k, v)]
    ELSE Append(d, Item(k, v))

ValueOf(d, k) == d[Lookup(d, k)].val

\* --------------------------------------------------- converter: workbooks

\* A worksheet: its first row and the rows from the second on, every row as
\* wide as the sheet.
Sheet(header, rows) == [header |-> header, rows |-> rows]

\* A workbook: whether openpyxl.load_workbook opens it, and its sheets by name.
Workbook(readable, sheets) == [readable |-> readable, sheets |-> sheets]

\* One data row of read_excel_sheet: the cells under a non-empty header.
RowDict(headers, row) ==
    LET cols == {i \in 1..Len(row) : i <= Len(headers) /\ headers[i] # Empty}
    IN  [k \in {headers[i] : i \in cols} |->
            clean_cell_value(row[CHOOSE i \in cols :
                                   headers[i] = k /\ \A j \in cols : headers[j] = k => j <= i])]

\* any(row_dict.values())
AnyValue(d) == \E k \in DOMAIN d : d[k] # Empty

RECURSIVE ReadRows(_, _)
ReadRows(headers, rows) ==
    IF rows = <<>> THEN <<>>
    ELSE LET row_dict == RowDict(headers, Head(rows))
         IN  (IF AnyValue(row_dict) THEN <<row_dict>> ELSE <<>>)
             \o ReadRows(headers, Tail(rows))

read_excel_sheet(wb, sheet_name) ==
    IF ~wb.readable THEN <<>>
    ELSE IF sheet_name \notin DOMAIN wb.sheets THEN <<>>
    ELSE LET ws == wb.sheets[sheet_name]
             headers == [i \in 1..Len(ws.header) |-> clean_cell_value(ws.header[i])]
         IN  ReadRows(headers, ws.rows)

\* ------------------------------------------------ converter: write_csv

QUESTIONNAIRE_DIR == <<Str("questionnaire")>>

STUDYGUIDE_DIR == <<Str("studyguide")>>

HANDOUT_DIR == <<Str("Handout")>>

PathPrefix(d, path) == Len(d) <= Len(path) /\ SubSeq(path, 1, Len(d)) = d

Parent(path) == SubSeq(path, 1, Len(path) - 1)

\* file_path.parent.mkdir(parents=True, exist_ok=True) raises.
MkdirFails(path) == \E d \in env.noMkdir : PathPrefix(d, Parent(path))

\* open(file_path, 'w') raises.
OpenFails(path) == path \in env.noOpen

\* What csv.DictWriter(f, fieldnames, extrasaction='ignore') writes: the
\* header line, then one line per row with the fields in order, "" for a
\* field the row lacks.
CsvLines(data, fieldnames) ==
    <<fieldnames>> \o
    [i \in 1..Len(data) |-> [j \in 1..Len(fieldnames) |-> Get(data[i], fieldnames[j], Empty)]]

DiskPut(d, path, file) ==
    [q \in (DOMAIN d) \cup {path} |-> IF q = path THEN file ELSE d[q]]

Line(kind, arg) == [kind |-> kind, arg |-> arg]

Say(w, kind, arg) == [w EXCEPT !.console = Append(@, Line(kind, arg))]

\* The run as main sees it: the output tree, the lines printed, the files
\* written, and whether an exception is unwinding main.
World == [disk |-> disk, console |-> console, written |-> written, raised |-> FALSE]

\* A mutant of write_csv: the file is opened for appending.
write_csv_appends(w, file_path, data, fieldnames) ==
    IF w.raised THEN w
    ELSE IF data = <<>> THEN Say(w, "WARN No data to write", file_path)
    ELSE IF MkdirFails(file_path) THEN [w EXCEPT !.raised = TRUE]
    ELSE IF OpenFails(file_path) THEN Say(w, "ERROR Error writing", file_path)
    ELSE LET old == IF file_path \in DOMAIN w.disk THEN w.disk[file_path] ELSE <<>>
             file == old \o CsvLines(data, fieldnames)
         IN  Say([w EXCEPT !.disk = DiskPut(@, file_path, file),
                             !.written = Append(@, [path |-> file_path, file |-> file])],
                   "Created", file_path)

\* write_csv; a call made while an exception unwinds main is not made.
write_csv(w, file_path, data, fieldnames) ==
    IF w.raised THEN w
    ELSE IF data = <<>> THEN Say(w, "WARN No data to write", file_path)
    ELSE IF MkdirFails(file_path) THEN [w EXCEPT !.raised = TRUE]
    ELSE IF OpenFails(file_path) THEN Say(w, "ERROR Error writing", file_path)
    ELSE LET file == CsvLines(data, fieldnames)
         IN  Say([w EXCEPT !.disk = DiskPut(@, file_path, file),
                             !.written = Append(@, [path |-> file_path, file |-> file])],
                   "Created", file_path)

\* --------------------------------------------- converter: the master index

K_subject_key == Str("subject_key")
K_name == Str("name")
K_topic_id == Str("topic_id")
K_topic_name == Str("topic_name")

RECURSIVE SubjectsOf(_, _)
SubjectsOf(subjects_data, acc) ==
    IF subjects_data = <<>> THEN acc
    ELSE LET sub == Head(subjects_data)
         IN  SubjectsOf(Tail(subjects_data),
                        IF K_subject_key \in DOMAIN sub /\ K_name \in DOMAIN sub
                        THEN Put(acc, sub[K_subject_key], sub[K_name])
                        ELSE acc)

RECURSIVE MappingOf(_, _)
MappingOf(topics_data, acc) ==
    IF topics_data = <<>> THEN acc
    ELSE LET topic == Head(topics_data)
         IN  IF \/ K_subject_key \notin DOMAIN topic
                \/ K_topic_id \notin DOMAIN topic
                \/ K_topic_name \notin DOMAIN topic
             THEN MappingOf(Tail(topics_data), acc)
             ELSE LET subject_key == topic[K_subject_key]
                      inner == IF subject_key \in Keys(acc) THEN ValueOf(acc, subject_key) ELSE <<>>
                  IN  MappingOf(Tail(topics_data),
                                Put(acc, subject_key,
                                    Put(inner, topic[K_topic_id], topic[K_topic_name])))

\* get_subject_topic_mapping: <<subjects, mapping>>
get_subject_topic_mapping(wb) ==
    <<SubjectsOf(read_excel_sheet(wb, "Subjects"), <<>>),
      MappingOf(read_excel_sheet(wb, "Topics"), <<>>)>>

IndexFields == <<K_subject_key, Str("subject_name"), K_topic_id, K_topic_name, Str("topic_folder")>>

IndexRow(subject_key, subject_name, topic_id, topic_name) ==
    [k \in {IndexFields[i] : i \in 1..Len(IndexFields)} |->
        IF k = K_subject_key THEN subject_key
        ELSE IF k = Str("subject_name") THEN subject_name
        ELSE IF k = K_topic_id THEN topic_id
        ELSE IF k = K_topic_name THEN topic_name
        ELSE TopicFolder(topic_name)]

RECURSIVE Flatten(_)
Flatten(ss) == IF ss = <<>> THEN <<>> ELSE Head(ss) \o Flatten(Tail(ss))

\* index_data of create_master_indices
IndexData(subs, map) ==
    Flatten([i \in 1..Len(map) |->
        LET subject_key == map[i].key
            topics == map[i].val
            subject_name == IF subject_key \in Keys(subs) THEN ValueOf(subs, subject_key)
                            ELSE subject_key
        IN  [j \in 1..Len(topics) |->
                IndexRow(subject_key, subject_name, topics[j].key, topics[j].val)]])

MasterIndex(root) == Append(root, Str("_master_index.csv"))

\* A mutant of create_master_indices: the Handout copy is not written.
create_master_indices_two(w, subs, map) ==
    LET index_data == IndexData(subs, map)
        w0 == Say(w, "Creating master index files", <<>>)
        w1 == write_csv(w0, MasterIndex(QUESTIONNAIRE_DIR), index_data, IndexFields)
    IN  write_csv(w1, MasterIndex(STUDYGUIDE_DIR), index_data, IndexFields)

create_master_indices(w, subs, map) ==
    LET index_data == IndexData(subs, map)
        w0 == Say(w, "Creating master index files", <<>>)
        w1 == write_csv(w0, MasterIndex(QUESTIONNAIRE_DIR), index_data, IndexFields)
        w2 == write_csv(w1, MasterIndex(STUDYGUIDE_DIR), index_data, IndexFields)
    IN  write_csv(w2, MasterIndex(HANDOUT_DIR), index_data, IndexFields)

\* ------------------------------------------------ converter: quiz pass

QuizFields ==
    <<Str("question_id"), K_topic_id, Str("question_text"), Str("option_a"), Str("option_b"),
      Str("option_c"), Str("option_d"), Str("correct_answer"), Str("explanation"),
      Str("difficulty"), Str("hint"), Str("xp_reward")>>

\* by_topic[topic_id].append(item), the list created at the first item.
AppendTo(by_topic, topic_id, item) ==
    Put(by_topic, topic_id,
        Append(IF topic_id \in Keys(by_topic) THEN ValueOf(by_topic, topic_id) ELSE <<>>, item))

\* A mutant of GroupQuiz: a question replaces the list of its topic.
RECURSIVE GroupQuiz_replaces(_, _)
GroupQuiz_replaces(quiz_data, by_topic) ==
    IF quiz_data = <<>> THEN by_topic
    ELSE LET question == Head(quiz_data)
             topic_id == Get(question, K_topic_id, Empty)
         IN  GroupQuiz_replaces(Tail(quiz_data),
                                IF topic_id = Empty THEN by_topic
                                ELSE Put(by_topic, topic_id, <<question>>))

\* The grouping loop of convert_quiz_questions.
RECURSIVE GroupQuiz(_, _)
GroupQuiz(quiz_data, by_topic) ==
    IF quiz_data = <<>> THEN by_topic
    ELSE LET question == Head(quiz_data)
             topic_id == Get(question, K_topic_id, Empty)
         IN  GroupQuiz(Tail(quiz_data),
                       IF topic_id = Empty THEN by_topic
                       ELSE AppendTo(by_topic, topic_id, question))

\* output_path of convert_quiz_questions
QuizPath(subject_key, topic_id, questions) ==
    LET topic_name == IF questions # <<>> THEN Get(questions[1], K_topic_name, topic_id)
                      ELSE topic_id
        topic_folder == TopicFolder(topic_name)
    IN  QUESTIONNAIRE_DIR \o <<Title(subject_key), topic_folder, Str("questions.csv")>>

\* The writing loop of convert_quiz_questions.
RECURSIVE WriteQuiz(_, _, _)
WriteQuiz(w, subject_key, by_topic) ==
    IF by_topic = <<>> THEN w
    ELSE LET topic_id == Head(by_topic).key
             questions == Head(by_topic).val
         IN  WriteQuiz(write_csv(w, QuizPath(subject_key, topic_id, questions),
                                 questions, QuizFields),
                       subject_key, Tail(by_topic))

\* convert_quiz_questions, one subject workbook.
convert_quiz_book(w, book) ==
    LET quiz_data == read_excel_sheet(book.wb, "Quiz_Questions")
    IN  WriteQuiz(Say(w, "Processing", <<book.stem>>), book.stem, GroupQuiz(quiz_data, <<>>))

\* ----------------------------------------------- converter: study pass

ContentFields ==
    <<Str("content_id"), Str("content_type"), Str("title"), Str("content"), Str("url"),
      Str("order_index")>>

ContentItem(content_id, content_type, title, content, url, order_index) ==
    [k \in {ContentFields[i] : i \in 1..Len(ContentFields)} |->
        IF k = Str("content_id") THEN content_id
        ELSE IF k = Str("content_type") THEN content_type
        ELSE IF k = Str("title") THEN title
        ELSE IF k = Str("content") THEN content
        ELSE IF k = Str("url") THEN url
        ELSE order_index]

\* a or b on strings
Or(a, b) == IF a # Empty THEN a ELSE b

\* The item appended for a row of Study_Content, Formulas or Key_Terms.
ItemOf(sheet_name, row) ==
    IF sheet_name = "Study_Content"
    THEN ContentItem(Get(row, Str("content_id"), Empty),
                     Get(row, Str("content_type"), Str("text")),
                     Get(row, Str("content_title"), Empty),
                     Get(row, Str("content_text"), Empty),
                     Or(Get(row, Str("video_url"), Empty), Get(row, Str("image_url"), Empty)),
                     Get(row, Str("order_index"), Empty))
    ELSE IF sheet_name = "Formulas"
    THEN ContentItem(Get(row, Str("formula_id"), Empty), Str("formula"),
                     Get(row, Str("formula_label"), Empty),
                     Get(row, Str("formula_text"), Empty), Empty,
                     Get(row, Str("order_index"), Empty))
    ELSE ContentItem(Get(row, Str("term_id"), Empty), Str("key_term"),
                     Get(row, Str("term"), Empty),
                     Get(row, Str("definition"), Empty), Empty, Empty)

\* One of the three grouping loops of convert_study_content.
RECURSIVE GroupContent(_, _, _)
GroupContent(sheet_name, rows, by_topic) ==
    IF rows = <<>> THEN by_topic
    ELSE LET topic_id == Get(Head(rows), K_topic_id, Empty)
         IN  GroupContent(sheet_name, Tail(rows),
                          IF topic_id = Empty THEN by_topic
                          ELSE AppendTo(by_topic, topic_id, ItemOf(sheet_name, Head(rows))))

\* A mutant of GroupStudy: the formulas are grouped before the study content.
GroupStudy_formulas_first(study_content, formulas, key_terms) ==
    GroupContent("Key_Terms", key_terms,
        GroupContent("Study_Content", study_content,
            GroupContent("Formulas", formulas, <<>>)))

\* by_topic of convert_study_content after its three loops.
GroupStudy(study_content, formulas, key_terms) ==
    GroupContent("Key_Terms", key_terms,
        GroupContent("Formulas", formulas,
            GroupContent("Study_Content", study_content, <<>>)))

\* output_path of convert_study_content
ContentPath(subject_key, topic_id, content_items) ==
    LET derived == Title(Replace(Replace(topic_id, "-", <<" ">>), "_", <<" ">>))
        topic_name == IF content_items # <<>> /\ K_topic_name \in DOMAIN content_items[1]
                      THEN Get(content_items[1], K_topic_name, derived)
                      ELSE derived
        topic_folder == TopicFolder(topic_name)
    IN  STUDYGUIDE_DIR \o <<Title(subject_key), topic_folder, Str("content.csv")>>

\* The writing loop of convert_study_content.
RECURSIVE WriteContent(_, _, _)
WriteContent(w, subject_key, by_topic) ==
    IF by_topic = <<>> THEN w
    ELSE LET topic_id == Head(by_topic).key
             content_items == Head(by_topic).val
         IN  WriteContent(write_csv(w, ContentPath(subject_key, topic_id, content_items),
                                    content_items, ContentFields),
                          subject_key, Tail(by_topic))

\* convert_study_content, one subject workbook.
convert_study_book(w, book) ==
    LET study_content == read_excel_sheet(book.wb, "Study_Content")
        formulas == read_excel_sheet(book.wb, "Formulas")
        key_terms == read_excel_sheet(book.wb, "Key_Terms")
    IN  WriteContent(Say(w, "Processing", <<book.stem>>), book.stem,
                     GroupStudy(study_content, formulas, key_terms))

\* ---------------------------------------------------- converter: main

\* The state after a step of main that leaves the world `w`: at `next` if it
\* returned, dead if an exception left main.
Continue(w, next, nextbi) ==
    /\ disk' = w.disk
    /\ console' = w.console
    /\ written' = w.written
    /\ IF w.raised
       THEN /\ cpc' = "aborted"
            /\ bi' = 0
            /\ snapshots' = Append(snapshots, w.disk)
       ELSE /\ cpc' = next
            /\ bi' = nextbi
            /\ UNCHANGED snapshots

\* main, step 1: get_subject_topic_mapping
GetMapping ==
    /\ cpc = "mapping"
    /\ LET sm == get_subject_topic_mapping(master)
       IN  subjects' = sm[1] /\ mapping' = sm[2]
    /\ Continue(Say(Say(World, "Starting Excel to CSV Conversion", <<>>),
                    "Reading master data", <<>>), "indices", 0)
    /\ UNCHANGED <<master, books, env, run, vvars>>

\* main, step 2: create_master_indices
CreateMasterIndices ==
    /\ cpc = "indices"
    /\ Continue(create_master_indices(World, subjects, mapping), "quiz", 1)
    /\ UNCHANGED <<master, books, env, run, subjects, mapping, vvars>>

\* main, step 3: convert_quiz_questions, one iteration over subjects_dir.
ConvertQuiz ==
    /\ cpc = "quiz"
    /\ LET w0 == IF bi = 1 THEN Say(World, "Converting Quiz Questions", <<>>) ELSE World
       IN  IF bi < Len(books)
           THEN Continue(convert_quiz_book(w0, books[bi]), "quiz", bi + 1)
           ELSE Continue(convert_quiz_book(w0, books[bi]), "study", 1)
    /\ UNCHANGED <<master, books, env, run, subjects, mapping, vvars>>

\* main, step 4: convert_study_content, one iteration over subjects_dir.
ConvertStudy ==
    /\ cpc = "study"
    /\ LET w0 == IF bi = 1 THEN Say(World, "Converting Study Content", <<>>) ELSE World
       IN  IF bi < Len(books)
           THEN Continue(convert_study_book(w0, books[bi]), "study", bi + 1)
           ELSE Continue(convert_study_book(w0, books[bi]), "complete", 0)
    /\ UNCHANGED <<master, books, env, run, subjects, mapping, vvars>>

\* main, its last prints.
Complete ==
    /\ cpc = "complete"
    /\ console' = Append(console, Line("Conversion complete", <<>>))
    /\ cpc' = "done"
    /\ snapshots' = Append(snapshots, disk)
    /\ UNCHANGED <<master, books, env, disk, run, bi, subjects, mapping, written, vvars>>

\* The script is started again on the same workbooks and the same tree.
Rerun ==
    /\ cpc \in {"done", "aborted"}
    /\ run < MaxRuns
    /\ run' = run + 1
    /\ cpc' = "mapping"
    /\ bi' = 0
    /\ subjects' = <<>> /\ mapping' = <<>>
    /\ console' = <<>> /\ written' = <<>>
    /\ UNCHANGED <<master, books, env, disk, snapshots, vvars>>

\* ------------------------------------------------- converter: the inputs

SeqsUpTo(S, n) == UNION {[1..k -> S] : k \in 0..n}

Digit(i) == <<"1", "2", "3", "4", "5", "6">>[i]

\* The sheets of a workbook: those of `names`, each as `sheetOf` gives it.
Sheets(names, subjectsSheet, topicsSheet) ==
    [n \in names |-> IF n = "Subjects" THEN subjectsSheet ELSE topicsSheet]

S_phy == <<"p", "h", "y">>
S_che == <<"c", "h", "e">>
S_t1 == <<"t", "1">>
S_t2 == <<"t", "2">>
S_AB == <<"A", " ", "B">>
S_AqB == <<"A", "'", " ", "B">>

SubjectsSheet ==
    Sheet(<<Cell(K_subject_key), Cell(K_name)>>,
          <<<<Cell(S_phy), Cell(Str("Physics"))>>>>)

\* Rows of the Topics sheet: a full row; a padded topic_id with an empty
\* topic_name; a row without subject_key; a blank row.
TopicsRows ==
    {<<Cell(S_phy), Cell(S_t1), Cell(S_AB)>>,
     <<Cell(S_phy), Cell(<<" ">> \o S_t2 \o <<" ">>), NoneCell>>,
     <<NoneCell, Cell(S_t1), Cell(S_AqB)>>,
     <<NoneCell, Cell(NoneText), Cell(<<" ">>)>>}

TopicsHeaders ==
    {<<Cell(K_subject_key), Cell(<<" ">> \o K_topic_id), Cell(K_topic_name)>>,
     <<Cell(K_subject_key), Cell(K_topic_id), NoneCell>>}

StandardMaster ==
    Workbook(TRUE, Sheets({"Subjects", "Topics"}, SubjectsSheet,
                          Sheet(<<Cell(K_subject_key), Cell(K_topic_id), Cell(K_topic_name)>>,
                                <<<<Cell(S_phy), Cell(S_t1), Cell(S_AB)>>>>)))

Unreadable == Workbook(FALSE, <<>>)

\* Master workbooks: unreadable; with any rows in its Topics sheet; without
\* a Subjects sheet or without a topic_name column.
Masters ==
    {Unreadable}
    \cup {Workbook(TRUE, Sheets({"Subjects", "Topics"}, SubjectsSheet,
                                Sheet(<<Cell(K_subject_key), Cell(<<" ">> \o K_topic_id),
                                        Cell(K_topic_name)>>, rows))) :
             rows \in SeqsUpTo(TopicsRows, MaxRows)}
    \cup {Workbook(TRUE, Sheets(names, SubjectsSheet,
                                Sheet(h, <<<<Cell(S_phy), Cell(S_t1), Cell(S_AB)>>>>))) :
             names \in {{"Topics"}, {"Subjects", "Topics"}}, h \in TopicsHeaders}

\* The topic_id and topic_name cells of a quiz row: two topics whose names
\* give one folder, a topic with an empty name, a row without topic_id.
QuizKinds ==
    {<<Cell(S_t1), Cell(S_AB)>>,
     <<Cell(S_t2), Cell(S_AqB)>>,
     <<Cell(S_t2), NoneCell>>,
     <<NoneCell, Cell(S_AB)>>}

\* A Quiz_Questions sheet: question_id counts the rows; `note` is a column
\* questions.csv does not declare.
QuizSheet(withName, kinds) ==
    Sheet(<<Cell(Str("question_id")), Cell(K_topic_id)>>
            \o (IF withName THEN <<Cell(K_topic_name)>> ELSE <<>>)
            \o <<Cell(Str("note"))>>,
          [i \in 1..Len(kinds) |->
              <<Cell(<<"q", Digit(i)>>), kinds[i][1]>>
                \o (IF withName THEN <<kinds[i][2]>> ELSE <<>>)
                \o <<Cell(Str("n"))>>])

S_t_1 == <<"t", "-", "1">>
S_tu1 == <<"t", "_", "1">>

\* The topic_id cell of a study row: two ids that give one folder, or none.
StudyTids == {Cell(S_t_1), Cell(S_tu1), NoneCell}

\* A Study_Content sheet: content_id counts the rows up, order_index down.
StudySheet(tids) ==
    Sheet(<<Cell(Str("content_id")), Cell(K_topic_id), Cell(Str("content_title")),
            Cell(Str("video_url")), Cell(Str("image_url")), Cell(Str("order_index"))>>,
          [i \in 1..Len(tids) |->
              <<Cell(<<"s", Digit(i)>>), tids[i], Cell(Str("title")),
                NoneCell, Cell(Str("img")), Cell(<<Digit(Len(tids) + 1 - i)>>)>>])

FormulaSheet(tids) ==
    Sheet(<<Cell(Str("formula_id")), Cell(K_topic_id), Cell(Str("formula_label")),
            Cell(Str("formula_text")), Cell(Str("order_index"))>>,
          [i \in 1..Len(tids) |->
              <<Cell(<<"f", Digit(i)>>), tids[i], Cell(Str("label")),
                Cell(Str("text")), Cell(<<"0">>)>>])

TermSheet(tids) ==
    Sheet(<<Cell(Str("term_id")), Cell(K_topic_id), Cell(Str("term")), Cell(Str("definition"))>>,
          [i \in 1..Len(tids) |->
              <<Cell(<<"k", Digit(i)>>), tids[i], Cell(Str("term")), Cell(Str("def"))>>])

\* A subject workbook.
Book(stem, readable, names, quiz, study, formulas, terms) ==
    [stem |-> stem,
     wb |-> Workbook(readable,
                     [n \in names |->
                         IF n = "Quiz_Questions" THEN quiz
                         ELSE IF n = "Study_Content" THEN study
                         ELSE IF n = "Formulas" THEN formulas
                         ELSE terms])]

AllSheets == {"Quiz_Questions", "Study_Content", "Formulas", "Key_Terms"}

StandardQuiz == QuizSheet(TRUE, <<<<Cell(S_t1), Cell(S_AB)>>>>)

StandardBook(stem) ==
    Book(stem, TRUE, AllSheets, StandardQuiz, StudySheet(<<Cell(S_t_1)>>),
         FormulaSheet(<<Cell(S_t_1)>>), TermSheet(<<Cell(S_t_1)>>))

\* Subject workbooks that differ in their Quiz_Questions sheet.
QuizBooks ==
    {Book(S_phy, TRUE, AllSheets, quiz, StudySheet(<<Cell(S_t_1)>>),
          FormulaSheet(<<Cell(S_t_1)>>), TermSheet(<<Cell(S_t_1)>>)) :
        quiz \in {QuizSheet(TRUE, kinds) : kinds \in SeqsUpTo(QuizKinds, MaxRows)}
                 \cup {QuizSheet(FALSE, <<<<Cell(S_t1), NoneCell>>>>)}}

\* Subject workbooks that differ in their study sheets.
StudyBooks ==
    {Book(S_phy, TRUE, AllSheets, StandardQuiz, StudySheet(st),
          FormulaSheet(fo), TermSheet(te)) :
        st \in SeqsUpTo(StudyTids, MaxRows),
        fo \in {<<Cell(S_t_1)>>, <<Cell(S_tu1)>>},
        te \in {<<>>, <<Cell(S_t_1)>>}}
    \cup {Book(S_phy, TRUE, AllSheets \ absent, StandardQuiz, StudySheet(<<Cell(S_t_1)>>),
               FormulaSheet(<<Cell(S_t_1)>>), TermSheet(<<Cell(S_t_1)>>)) :
             absent \in {{"Formulas"}, {"Study_Content", "Key_Terms"}, {"Quiz_Questions"}}}

UnreadableBook(stem) == [stem |-> stem, wb |-> Unreadable]

\* ------------------------------------------- converter: the environment

\* A file of an earlier conversion: a header line and one row.
OldFile == <<<<Str("old")>>, <<Str("old")>>>>

P_Questions == QUESTIONNAIRE_DIR \o <<Title(S_phy), TopicFolder(S_AB), Str("questions.csv")>>

P_Gone == QUESTIONNAIRE_DIR \o <<Title(S_phy), Str("Gone"), Str("questions.csv")>>

P_Content == STUDYGUIDE_DIR \o <<Title(S_phy), <<"T", "_", "1">>, Str("content.csv")>>

\* The tree a run meets: the files an earlier conversion left, the
\* directories that cannot be made, the files that cannot be opened.
Environment(stale, noMkdir, noOpen) == [stale |-> stale, noMkdir |-> noMkdir, noOpen |-> noOpen]

Clean == Environment({}, {}, {})

StaleAll ==
    Environment({MasterIndex(QUESTIONNAIRE_DIR), MasterIndex(STUDYGUIDE_DIR),
                 MasterIndex(HANDOUT_DIR), P_Questions, P_Gone, P_Content}, {}, {})

MasterEnvironments ==
    {Clean, StaleAll,
     Environment({MasterIndex(HANDOUT_DIR)}, {}, {}),
     Environment({}, {}, {MasterIndex(QUESTIONNAIRE_DIR)}),
     Environment({}, {STUDYGUIDE_DIR}, {}),
     Environment({}, {HANDOUT_DIR}, {})}

QuizEnvironments ==
    {Clean, StaleAll,
     Environment({P_Questions}, {}, {P_Questions}),
     Environment({}, {QUESTIONNAIRE_DIR \o <<Title(S_phy)>>}, {})}

StudyEnvironments ==
    {Clean, StaleAll,
     Environment({}, {}, {P_Content}),
     Environment({}, {STUDYGUIDE_DIR \o <<Title(S_phy)>>}, {})}

Input(m, bs, e) == [master |-> m, books |-> bs, env |-> e]

\* What a run reads and meets: one part varies, the rest is standard.
Inputs ==
    {Input(m, <<StandardBook(S_phy), StandardBook(S_che)>>, e) :
        m \in Masters, e \in MasterEnvironments}
    \cup {Input(StandardMaster, <<b, StandardBook(S_che)>>, e) :
             b \in QuizBooks, e \in QuizEnvironments}
    \cup {Input(StandardMaster, <<b, StandardBook(S_che)>>, e) :
             b \in StudyBooks, e \in StudyEnvironments}
    \cup {Input(StandardMaster, bs, e) :
             bs \in {<<UnreadableBook(S_phy), StandardBook(S_che)>>,
                     <<StandardBook(S_phy), UnreadableBook(S_che)>>},
             e \in {Clean, StaleAll}}

InitialDisk(e) == [q \in e.stale |-> OldFile]

InitConvert ==
    /\ ValidatorStart
    /\ \E in \in Inputs :
          /\ master = in.master
          /\ books = in.books
          /\ env = in.env
          /\ disk = InitialDisk(in.env)
    /\ cpc = "mapping" /\ run = 1 /\ bi = 0
    /\ subjects = <<>> /\ mapping = <<>>
    /\ console = <<>> /\ written = <<>> /\ snapshots = <<>>

NextConvert ==
    \/ GetMapping
    \/ CreateMasterIndices
    \/ ConvertQuiz
    \/ ConvertStudy
    \/ Complete
    \/ Rerun

SpecConvert == InitConvert /\ [][NextConvert]_vars

\* ------------------------------------------------ validator: the claims

\* The entries the validator writes, as the claims name them.
CrashEntry == Entry("ERROR", "Validation script crashed", "e", <<>>)

PagesErr(tp) ==
    Entry("ERROR", "Missing 'Pages' directory in studyguide", "", Append(tp, "studyguide"))

IndexErr(tp) ==
    Entry("ERROR", "Missing 'index.csv' map for studyguide pages", "", Append(tp, "studyguide"))

MissingSubErr(sub, tp) == Entry("ERROR", "Missing required subfolder in topic", sub, tp)

QuizErr(tp) == Entry("ERROR", "Missing 'Quiz' directory", "", Append(tp, "questionnaire"))

Range(s) == {s[i] : i \in 1..Len(s)}

Count(s, e) == Cardinality({i \in 1..Len(s) : s[i] = e})

IsPrefix(s, t) == Len(s) <= Len(t) /\ SubSeq(t, 1, Len(s)) = s

Last(s) == s[Len(s)]

\* The topic folders the walk may meet.
TopicPaths ==
    {<<REQUIRED_SUBJECTS[i], TopicNames[j]>> : i \in 1..Len(REQUIRED_SUBJECTS), j \in 1..MaxTopics}

StatusMatchesErrors(r) == (r.status = "failed") <=> (r.errors # <<>>)

\* C1: in every state of a validator run, and in the emitted report, status
\* is "failed" exactly when the errors list is non-empty; warnings, however
\* many were appended, leave status alone.
C1_StatusIffErrors ==
    /\ StatusMatchesErrors(report)
    /\ output # <<>> => StatusMatchesErrors(output[1])

\* C1's case: a report emitted with warnings, no error and status "success".
C1_Witness ==
    /\ output # <<>>
    /\ output[1].warnings # <<>>
    /\ output[1].errors = <<>>
    /\ output[1].status = "success"

\* C7, in states: a run that has not printed can always take a step; what is
\* printed is the whole report; a crash leaves one crash entry, the last of
\* errors, with status "failed", and the run is then at the print or past it.
C7_State ==
    /\ pc # "done" => ENABLED NextValidate
    /\ pc = "done" => output = <<report>>
    /\ pc # "done" => output = <<>>
    /\ Count(report.errors, CrashEntry) <= 1
    /\ CrashEntry \in Range(report.errors) =>
          /\ Last(report.errors) = CrashEntry
          /\ report.status = "failed"
          /\ pc \in {"emit", "done"}

\* C7, in steps: the step that records the crash appends that one entry and
\* keeps every entry and counter recorded before it.
C7_Step ==
    (CrashEntry \in Range(report'.errors) /\ CrashEntry \notin Range(report.errors)) =>
        /\ report'.errors = Append(report.errors, CrashEntry)
        /\ report'.warnings = report.warnings
        /\ report'.stats = report.stats
        /\ pc' = "emit"

\* C7: an unexpected failure of the walk becomes exactly one ERROR entry
\* appended to the report, earlier entries kept, status "failed", and the
\* report is printed in every run, failed or not.
C7_CrashBecomesOneError == []C7_State /\ [][C7_Step]_vars

\* C7's case: a report printed after a crash that found an ERROR and a
\* WARNING already recorded.
C7_Witness ==
    /\ pc = "done"
    /\ Len(output[1].errors) = 2
    /\ output[1].errors[1] = PagesErr(<<"Physics", "t1">>)
    /\ output[1].errors[2] = CrashEntry
    /\ output[1].status = "failed"

\* A warning recorded for an entry of tp's studyguide/Pages.
PageWarnings(r, tp) ==
    {i \in 1..Len(r.warnings) :
        /\ r.warnings[i].msg = "Stray or unknown file type"
        /\ Len(r.warnings[i].path) = 5
        /\ SubSeq(r.warnings[i].path, 1, 2) = tp}

\* C8 as stated: when Physics/t1/studyguide has no Pages directory (and the
\* walk did not crash), the printed report holds exactly one ERROR, the one
\* for the missing Pages directory, and status is "failed".
C8_Original ==
    (/\ output # <<>>
     /\ CrashEntry \notin Range(output[1].errors)
     /\ PagesErr(<<"Physics", "t1">>) \in Range(output[1].errors)) =>
        /\ output[1].errors = <<PagesErr(<<"Physics", "t1">>)>>
        /\ output[1].status = "failed"

C8_State ==
    \A tp \in TopicPaths :
        /\ Count(report.errors, PagesErr(tp)) <= 1
        /\ PagesErr(tp) \in Range(report.errors) =>
              /\ report.status = "failed"
              /\ IndexErr(tp) \notin Range(report.errors)
              /\ PageWarnings(report, tp) = {}

C8_Step ==
    \A tp \in TopicPaths :
        (Len(report'.errors) > Len(report.errors) /\ Last(report'.errors) = PagesErr(tp)) =>
            /\ report'.errors = Append(report.errors, PagesErr(tp))
            /\ report'.warnings = report.warnings
            /\ report'.stats = report.stats
            /\ pc' = "sub" /\ ki' = 2 /\ ti' = ti /\ si' = si

\* C8, amended: a studyguide without Pages adds exactly one ERROR for that
\* studyguide, the one for the missing Pages directory, and status is
\* "failed"; the check aborts the studyguide: no index.csv error, no page
\* warning, no change of the counters, and the walk goes on with the
\* questionnaire of the same topic.
C8_PagesMissingAborts == []C8_State /\ [][C8_Step]_vars

\* C8's case: the tree that is only Physics/t1/studyguide, walked to the end:
\* the Pages error and the errors for the two absent subfolders.
C8_Witness ==
    /\ output # <<>>
    /\ output[1].errors = <<PagesErr(<<"Physics", "t1">>),
                         MissingSubErr("questionnaire", <<"Physics", "t1">>),
                         MissingSubErr("Handout", <<"Physics", "t1">>)>>
    /\ Len(output[1].warnings) = 5
    /\ output[1].stats.files_checked = 0
    /\ output[1].status = "failed"

\* The walk is at subfolder k of a topic.
AtSub(k) == pc = "sub" /\ ki = k

C9_State ==
    \A tp \in TopicPaths : \A k \in 1..3 :
        Count(report.errors, MissingSubErr(REQUIRED_TOPIC_STRUCTURE[k], tp)) <= 1

C9_Step ==
    /\ \A k \in 1..2 :
          (AtSub(k) /\ pc' # "emit") =>
              /\ si' = si /\ ti' = ti /\ ntopics' = ntopics
              /\ \/ pc' = "sub" /\ ki' = k + 1
                 \/ k = 1 /\ pc' = "sg_files" /\ ki' = 1
    /\ (pc = "sg_files" /\ pc' # "emit") => (pc' = "sub" /\ ki' = 2 /\ si' = si /\ ti' = ti)
    /\ \A k \in 1..3 :
          (/\ AtSub(k)
           /\ Len(report'.errors) > Len(report.errors)
           /\ Last(report'.errors).msg = "Missing required subfolder in topic") =>
              /\ report'.errors =
                    Append(report.errors, MissingSubErr(REQUIRED_TOPIC_STRUCTURE[k], TopicPath))
              /\ report'.status = "failed"
              /\ report'.warnings = report.warnings
              /\ report'.stats = report.stats

\* C9: validate_topic checks studyguide, questionnaire and Handout of every
\* topic folder, in that order: whatever the outcome of one subfolder (absent
\* or validated), the next is checked in the same topic; an absent one adds
\* exactly one ERROR and sets status to "failed".
C9_AllThreeChecked == []C9_State /\ [][C9_Step]_vars

\* C9's case: studyguide absent, and the questionnaire of the same topic was
\* still validated (its Quiz directory found missing) and Handout found absent.
C9_Witness ==
    /\ pc = "subject" /\ si = 2
    /\ report.errors = <<MissingSubErr("studyguide", <<"Physics", "t1">>),
                         QuizErr(<<"Physics", "t1">>),
                         MissingSubErr("Handout", <<"Physics", "t1">>)>>
    /\ report.status = "failed"

\* The extensions C10 names.
C10_Allowed == {".csv", ".pdf", ".docx", ".doc", ".jpg", ".png"}

C10_IsIndex(f) == f.stem = "index" /\ f.suffix = ".csv"

C10_Valid(fs) == {i \in 1..Len(fs) : ~C10_IsIndex(fs[i]) /\ fs[i].suffix \in C10_Allowed}

C10_Unknown(fs) == {i \in 1..Len(fs) : ~C10_IsIndex(fs[i]) /\ fs[i].suffix \notin C10_Allowed}

\* The step of validate_studyguide that lists Pages (and not a crash).
C10_Listed == pc = "sg_files" /\ pc' = "sub"

C10_Step ==
    C10_Listed =>
        LET new == SubSeq(report'.warnings, Len(report.warnings) + 1, Len(report'.warnings))
        IN  /\ report'.stats.files_checked = report.stats.files_checked + Len(files')
            /\ report'.stats.valid_files = report.stats.valid_files + Cardinality(C10_Valid(files'))
            /\ IsPrefix(report.warnings, report'.warnings)
            /\ Len(new) = Cardinality(C10_Unknown(files'))
            /\ \A i \in C10_Unknown(files') :
                  Cardinality({j \in 1..Len(new) : new[j].arg = files'[i]}) = 1
            /\ report'.errors = report.errors
            /\ report'.status = report.status

\* C10: listing a Pages directory of n entries adds n to files_checked, adds
\* to valid_files the entries other than index.csv whose extension is one of
\* csv, pdf, docx, doc, jpg, png, and records exactly one WARNING for each
\* other entry except index.csv, and no ERROR.
C10_PagesCounted == [][C10_Step]_vars

\* C10's case: Pages held index.csv, a page and a stray file: three checked,
\* one valid, one warning.
C10_Witness ==
    /\ AtSub(2)
    /\ Range(files) = {IndexCsv, File("Page1", ".pdf"), File("notes", ".txt")}
    /\ report.stats.files_checked = 3
    /\ report.stats.valid_files = 1
    /\ Len(report.warnings) = 1
    /\ report.errors = <<>>

\* The step of validate_studyguide that found Pages and looked for
\* index.csv; idxInPages' is where the tree holds it: "any" under studyguide,
\* "yes" under Pages only, "no" in neither place.
C11_Looked == AtSub(1) /\ pc' = "sg_files"

C11_State == \A tp \in TopicPaths : Count(report.errors, IndexErr(tp)) <= 1

C11_Step ==
    /\ C11_Looked =>
          /\ idxInPages' = "no" =>
                /\ report'.errors = Append(report.errors, IndexErr(TopicPath))
                /\ report'.status = "failed"
                /\ report'.warnings = report.warnings
                /\ report'.stats = report.stats
          /\ idxInPages' \in {"any", "yes"} => report' = report
    /\ (/\ Len(report'.errors) > Len(report.errors)
        /\ Last(report'.errors).msg = "Missing 'index.csv' map for studyguide pages") =>
          C11_Looked /\ idxInPages' = "no"

\* C11: for a studyguide whose Pages directory exists, exactly one
\* missing-index ERROR is recorded when index.csv is neither under studyguide
\* nor under studyguide/Pages, and none when it is in at least one of the two.
C11_IndexInEitherPlace == []C11_State /\ [][C11_Step]_vars

\* index.csv is under Pages only: the look-up has run and recorded nothing.
C11_Witness ==
    /\ pc = "sg_files" /\ si = 1 /\ ti = 1
    /\ idxInPages = "yes"
    /\ report = InitReport

NoCsvWarn(tp) ==
    Entry("WARN", "No quiz CSV files found", "", tp \o <<"questionnaire", "Quiz">>)

\* The step that validated a questionnaire; quizDir' and files' are what the
\* tree holds: whether Quiz exists, and its entries.
C12_Checked == AtSub(2) /\ quizDir' # "unread"

C12_HasCsv(fs) == \E i \in 1..Len(fs) : fs[i].suffix = ".csv"

C12_Step ==
    C12_Checked =>
        /\ quizDir' = "absent" =>
              /\ report'.errors = Append(report.errors, QuizErr(TopicPath))
              /\ report'.status = "failed"
              /\ report'.warnings = report.warnings
              /\ report'.stats = report.stats
        /\ (quizDir' = "present" /\ ~C12_HasCsv(files')) =>
              /\ report'.warnings = Append(report.warnings, NoCsvWarn(TopicPath))
              /\ report'.errors = report.errors
              /\ report'.status = report.status
              /\ report'.stats = report.stats
        /\ (quizDir' = "present" /\ C12_HasCsv(files')) => report' = report

\* C12: a questionnaire without Quiz gets exactly one ERROR and nothing
\* else; one whose Quiz holds no .csv file gets exactly one WARNING, no ERROR
\* and status is left as it was; one whose Quiz holds a .csv file gets
\* nothing.
C12_QuestionnaireOutcome == [][C12_Step]_vars

\* Quiz holds readme.txt only: one WARNING, and status is still "success".
C12_Witness ==
    /\ pc = "sub" /\ ki = 3 /\ si = 1 /\ ti = 1
    /\ quizDir = "present"
    /\ files = <<File("readme", ".txt")>>
    /\ Last(report.warnings) = NoCsvWarn(<<"Physics", "t1">>)
    /\ report.errors = <<>>
    /\ report.status = "success"

MissingSubjectWarn(subject) == Entry("WARN", "Missing subject folder", subject, <<>>)

\* The entries of r that are about something under the folder of subject.
EntriesUnder(r, subject) ==
    {e \in Range(r.errors) \cup Range(r.warnings) : e.path # <<>> /\ e.path[1] = subject}

\* The subjects the walk found absent.
AbsentSubjects == {REQUIRED_SUBJECTS[i] : i \in {j \in 1..Len(seen) : seen[j] = "absent"}}

C13_State ==
    /\ \A i \in 1..Len(REQUIRED_SUBJECTS) :
          Count(report.warnings, MissingSubjectWarn(REQUIRED_SUBJECTS[i])) =
              IF REQUIRED_SUBJECTS[i] \in AbsentSubjects THEN 1 ELSE 0
    /\ \A subject \in AbsentSubjects : EntriesUnder(report, subject) = {}
    /\ (/\ output # <<>>
        /\ CrashEntry \notin Range(output[1].errors)
        /\ Cardinality(AbsentSubjects) = 1
        /\ \A i \in 1..Len(seen) : seen[i] \in {"absent", "topics"}
        /\ \A subject \in RichSubjects : EntriesUnder(output[1], subject) = {}) =>
          /\ \E subject \in AbsentSubjects : output[1].warnings = <<MissingSubjectWarn(subject)>>
          /\ output[1].errors = <<>>
          /\ output[1].status = "success"

C13_Step ==
    (pc = "subject" /\ seen' = Append(seen, "absent")) =>
        /\ report'.warnings = Append(report.warnings, MissingSubjectWarn(Subject))
        /\ report'.errors = report.errors
        /\ report'.status = report.status
        /\ report'.stats = report.stats
        /\ IF si < Len(REQUIRED_SUBJECTS)
           THEN pc' = "subject" /\ si' = si + 1
           ELSE pc' = "emit"

\* C13: an absent subject folder adds exactly one WARNING naming the subject
\* and nothing else, none of its topics is validated, and the walk goes on
\* with the next subject; when one subject is absent and every other subject
\* folder holds topics that give nothing to report, the printed report has
\* that one WARNING, no ERROR and status "success".
C13_AbsentSubjectWarns == []C13_State /\ [][C13_Step]_vars

\* Math is absent, the five other subjects are there and well-formed.
C13_Witness ==
    /\ output # <<>>
    /\ seen = <<"topics", "topics", "topics", "absent", "topics", "topics">>
    /\ output[1].warnings = <<MissingSubjectWarn("Math")>>
    /\ output[1].errors = <<>>
    /\ output[1].status = "success"
    /\ output[1].stats.valid_files > 0

\* C15: invalid_files is 0 in every state of a validator run and in the
\* printed report, whatever the tree holds.
C15_InvalidFilesZero ==
    /\ report.stats.invalid_files = 0
    /\ output # <<>> => output[1].stats.invalid_files = 0

\* A printed report with a file of unknown type, a missing folder and a
\* crash.
C15_Witness ==
    /\ output # <<>>
    /\ \E i \in 1..Len(output[1].warnings) :
          output[1].warnings[i].msg = "Stray or unknown file type"
    /\ \E i \in 1..Len(output[1].errors) :
          output[1].errors[i].msg = "Missing required subfolder in topic"
    /\ CrashEntry \in Range(output[1].errors)
    /\ output[1].stats.files_checked > output[1].stats.valid_files
    /\ output[1].stats.invalid_files = 0

C16_State == report.stats.valid_files <= report.stats.files_checked

C16_Step ==
    /\ IsPrefix(report.errors, report'.errors)
    /\ IsPrefix(report.warnings, report'.warnings)
    /\ report'.stats.files_checked >= report.stats.files_checked
    /\ report'.stats.valid_files >= report.stats.valid_files
    /\ report.status = "failed" => report'.status = "failed"

\* C16: the report only grows: every step keeps the entries of errors and of
\* warnings as they are and in place, files_checked and valid_files never
\* decrease, valid_files never exceeds files_checked, and status "failed" is
\* never set back.
C16_ReportOnlyGrows == []C16_State /\ [][C16_Step]_vars

\* Physics failed, and a later subject, well-formed, was validated and
\* counted after it.
C16_Witness ==
    /\ pc = "subject" /\ si = 3
    /\ seen = <<"topics", "topics">>
    /\ report.status = "failed"
    /\ report.errors # <<>>
    /\ \A i \in 1..Len(report.errors) : report.errors[i].path[1] = "Physics"
    /\ report.stats.files_checked = MaxPages + Len(StandardPages)
    /\ report.stats.valid_files >= 1

\* ------------------------------------------------ converter: the claims

Books == 1..Len(books)

topic_id_of(row) == Get(row, K_topic_id, Empty)

\* The non-empty topic_id values the rows carry.
TopicIds(rows) == {topic_id_of(rows[i]) : i \in 1..Len(rows)} \ {Empty}

\* The rows of one topic_id, in sheet order.
RowsOf(rows, t) == SelectSeq(rows, LAMBDA r : topic_id_of(r) = t)

FirstRow(rows, t) == CHOOSE i \in 1..Len(rows) :
    topic_id_of(rows[i]) = t /\ \A j \in 1..(i - 1) : topic_id_of(rows[j]) # t

\* The entries of the log of written files whose path satisfies Is(_).
WrittenAt(Is(_)) == {written[i] : i \in {j \in 1..Len(written) : Is(written[j].path)}}

\* No directory and no file refuses to be made.
NoFaults == env.noMkdir = {} /\ env.noOpen = {}

QuizRows(b) == read_excel_sheet(books[b].wb, "Quiz_Questions")

\* The quiz pass is over for workbook b in this run.
QuizDone(b) == (cpc = "quiz" /\ bi > b) \/ cpc \in {"study", "complete", "done"}

IsQuestions(b, path) ==
    /\ Len(path) = Len(QUESTIONNAIRE_DIR) + 3
    /\ PathPrefix(QUESTIONNAIRE_DIR \o <<Title(books[b].stem)>>, path)
    /\ Last(path) = Str("questions.csv")

\* questions.csv of topic t: its folder comes from the topic_name of the
\* topic's first row, or from t if the sheet has no such column.
QuestionsPath(b, t) ==
    LET first == QuizRows(b)[FirstRow(QuizRows(b), t)]
    IN  QUESTIONNAIRE_DIR \o <<Title(books[b].stem),
                               TopicFolder(Get(first, K_topic_name, t)),
                               Str("questions.csv")>>

\* The header line and exactly the rows of topic t, in sheet order.
QuestionsFile(b, t) == CsvLines(RowsOf(QuizRows(b), t), QuizFields)

\* Of the topics whose questions.csv is `path`, the one the sheet lists last.
LastTopicAt(b, path) ==
    CHOOSE t \in TopicIds(QuizRows(b)) :
        /\ QuestionsPath(b, t) = path
        /\ \A u \in TopicIds(QuizRows(b)) :
              QuestionsPath(b, u) = path => FirstRow(QuizRows(b), u) <= FirstRow(QuizRows(b), t)

\* C2 as stated: in a tree that held no file before and refuses none, a
\* subject whose Quiz_Questions rows carry K distinct non-empty topic_id
\* values has exactly K questions.csv files once its quiz pass is over, each
\* holding exactly the rows of one topic_id.
C2_Original ==
    \A b \in Books :
        (QuizDone(b) /\ NoFaults /\ env.stale = {}) =>
            LET found == {q \in DOMAIN disk : IsQuestions(b, q)}
            IN  /\ Cardinality(found) = Cardinality(TopicIds(QuizRows(b)))
                /\ \A q \in found : \E t \in TopicIds(QuizRows(b)) : disk[q] = QuestionsFile(b, t)

C2_State ==
    \A b \in Books :
        LET topics == TopicIds(QuizRows(b))
            wrote == WrittenAt(LAMBDA q : IsQuestions(b, q))
        IN  /\ \A e \in wrote : \E t \in topics :
                  e.path = QuestionsPath(b, t) /\ e.file = QuestionsFile(b, t)
            /\ Cardinality({e.path : e \in wrote}) <= Cardinality(topics)
            /\ QuizDone(b) =>
                  \A t \in topics :
                      LET q == QuestionsPath(b, t)
                      IN  q \notin env.noOpen =>
                             /\ q \in DOMAIN disk
                             /\ disk[q] = QuestionsFile(b, LastTopicAt(b, q))
                             /\ \E e \in wrote : e.path = q

C2_Step == \A q \in DOMAIN disk : q \in DOMAIN disk'

\* C2, amended: convert_quiz_questions writes one questions.csv per distinct
\* topic folder of the subject's K topic_id values, so at most K files; each
\* file it writes holds exactly the rows of one topic_id, all of them and in
\* sheet order, and once the pass is over the file of a folder holds those of
\* the topic_id listed last among the ones that share the folder, unless the
\* file could not be opened; no file of an earlier run is removed.
C2_OneFilePerTopicFolder == []C2_State /\ [][C2_Step]_vars

\* Two topic_ids of one subject share a folder and one questions.csv is left.
C2_Witness ==
    /\ cpc = "done" /\ NoFaults /\ env.stale = {}
    /\ Cardinality(TopicIds(QuizRows(1))) = 2
    /\ Cardinality({q \in DOMAIN disk : IsQuestions(1, q)}) = 1

IndexPaths ==
    {MasterIndex(QUESTIONNAIRE_DIR), MasterIndex(STUDYGUIDE_DIR), MasterIndex(HANDOUT_DIR)}

\* The rows derived from the master workbook's Subjects and Topics sheets.
CurrentIndex ==
    LET sm == get_subject_topic_mapping(master)
    IN  IndexData(sm[1], sm[2])

\* The rows a file holds, none if there is no file.
FileRows(d, path) == IF path \in DOMAIN d THEN Tail(d[path]) ELSE <<>>

\* C3 as stated: after a run in a tree that refuses no file, each of the
\* three _master_index.csv holds exactly the rows of the current master
\* workbook, whatever it held before.
C3_Original ==
    (cpc = "done" /\ NoFaults) =>
        \A q \in IndexPaths : FileRows(disk, q) = Tail(CsvLines(CurrentIndex, IndexFields))

IndicesDone == cpc \in {"quiz", "study", "complete", "done"}

\* C3, amended: every _master_index.csv a run writes holds exactly the rows
\* of the current master workbook; when the workbook yields at least one row,
\* the three copies are identical after create_master_indices, except a copy
\* that could not be opened; when it yields none, no copy is written and
\* each of the three paths keeps what it held before the run.
C3_MasterIndexRegenerated ==
    /\ \A e \in WrittenAt(LAMBDA q : q \in IndexPaths) :
          CurrentIndex # <<>> /\ e.file = CsvLines(CurrentIndex, IndexFields)
    /\ (IndicesDone /\ CurrentIndex # <<>>) =>
          \A q \in IndexPaths \ env.noOpen :
              q \in DOMAIN disk /\ disk[q] = CsvLines(CurrentIndex, IndexFields)
    /\ \A q \in IndexPaths :
          (CurrentIndex = <<>> \/ q \in env.noOpen) =>
              /\ q \in DOMAIN disk <=> q \in env.stale
              /\ q \in DOMAIN disk => disk[q] = OldFile

\* Three copies of an earlier run have been replaced by the current rows.
C3_Witness ==
    /\ cpc = "done"
    /\ IndexPaths \subseteq env.stale
    /\ CurrentIndex # <<>>
    /\ \A q \in IndexPaths : disk[q] # OldFile /\ disk[q] = disk[MasterIndex(HANDOUT_DIR)]

StudyRows(b, sheet_name) == read_excel_sheet(books[b].wb, sheet_name)

StudyTopics(b) ==
    TopicIds(StudyRows(b, "Study_Content")) \cup TopicIds(StudyRows(b, "Formulas"))
        \cup TopicIds(StudyRows(b, "Key_Terms"))

\* The study pass is over for workbook b in this run.
StudyDone(b) == (cpc = "study" /\ bi > b) \/ cpc \in {"complete", "done"}

IsContent(b, path) ==
    /\ Len(path) = Len(STUDYGUIDE_DIR) + 3
    /\ PathPrefix(STUDYGUIDE_DIR \o <<Title(books[b].stem)>>, path)
    /\ Last(path) = Str("content.csv")

\* The content_id and content_type columns content.csv must show for topic
\* t: the Study_Content rows, then the Formulas rows, then the Key_Terms
\* rows, each in sheet order.
Column(rows, key, content_type) ==
    [i \in 1..Len(rows) |-> <<Get(rows[i], key, Empty), Get(rows[i], Str("content_type"), content_type)>>]

ExpectedColumns(b, t) ==
    Column(RowsOf(StudyRows(b, "Study_Content"), t), Str("content_id"), Str("text"))
    \o Column(RowsOf(StudyRows(b, "Formulas"), t), Str("formula_id"), Str("formula"))
    \o Column(RowsOf(StudyRows(b, "Key_Terms"), t), Str("term_id"), Str("key_term"))

\* The same two columns of a written content.csv, without the header line.
WrittenColumns(file) == [i \in 1..(Len(file) - 1) |-> <<file[i + 1][1], file[i + 1][2]>>]

C5_RunNeverAborts == cpc # "aborted"

\* C6: the tree a second run leaves on unchanged workbooks is the tree the
\* first run left: the same files with the same contents.
C6_Idempotent ==
    \A i \in 1..(Len(snapshots) - 1) : snapshots[i + 1] = snapshots[i]

\* Two complete runs, the first of which changed the tree it found.
C6_Witness ==
    /\ cpc = "done"
    /\ Len(snapshots) = 2
    /\ env.stale # {}
    /\ snapshots[1] # InitialDisk(env)
    /\ \E q \in env.stale : snapshots[2][q] # OldFile

\* The index rows of a _master_index.csv written in this run.
WrittenIndexRows ==
    UNION {Range(Tail(e.file)) : e \in WrittenAt(LAMBDA q : q \in IndexPaths)}

\* C14 as stated: a Topics row without subject_key, topic_id or topic_name
\* (no such column, or an empty cell) adds nothing to the mapping and gives
\* no index row: every entry of the mapping and every index row written has
\* the three of them non-empty.
C14_IndexRowsComplete ==
    /\ \A i \in 1..Len(mapping) :
          /\ mapping[i].key # Empty
          /\ \A j \in 1..Len(mapping[i].val) :
                mapping[i].val[j].key # Empty /\ mapping[i].val[j].val # Empty
    /\ \A row \in WrittenIndexRows :
          row[1] # Empty /\ row[3] # Empty /\ row[4] # Empty

====
